---- MODULE Spec2Model ----
(***************************************************************************)
(* Momentum long/short backtest pipeline (jgcook/DBexercise).              *)
(*                                                                         *)
(*   prices -> signal -> monthly signal -> rank -> long/short -> weights   *)
(*          -> daily weights -> asset PnLs, total PnL                      *)
(*                                                                         *)
(* Tables are sequences of rows, a row is a sequence with one cell per     *)
(* asset column.  A cell is a float, modelled as an exact fraction         *)
(* <<n, d>> with d > 0 in lowest terms; <<0, 0>> is NaN and <<1, 0>>,      *)
(* <<-1, 0>> are +inf, -inf.  Timestamps are day numbers; the calendar     *)
(* month of day d is d \div MonthLen and '1M' bins are labelled by their   *)
(* last day.                                                               *)
(***************************************************************************)
EXTENDS Integers, Sequences, FiniteSets

\* ---------------------------------------------------------------- bounds
NumAssets == 3
MaxDay == 4
MaxWindow == 2
MonthLen == 2
PriceLevels == <<1, 2>>
Splits == {<<1, 4>>, <<1, 2>>}

Assets == 1..NumAssets

\* ---------------------------------------------------------------- floats
NaN == <<0, 0>>
Inf == <<1, 0>>
NegInf == <<-1, 0>>

IsNaN(x) == x[1] = 0 /\ x[2] = 0
IsInf(x) == x[1] # 0 /\ x[2] = 0
IsFinite(x) == x[2] > 0

Abs(n) == IF n < 0 THEN -n ELSE n
Sign(n) == IF n < 0 THEN -1 ELSE IF n > 0 THEN 1 ELSE 0

RECURSIVE GCD(_, _)
GCD(a, b) == IF b = 0 THEN a ELSE GCD(b, a % b)

\* the fraction n/d (d # 0) in lowest terms with a positive denominator
Norm(n, d) ==
    LET g == GCD(Abs(n), Abs(d))
    IN <<Sign(d) * (n \div g), Abs(d) \div g>>

Float(n) == <<n, 1>>

FNeg(x) == <<-x[1], x[2]>>

FAdd(x, y) ==
    IF IsNaN(x) \/ IsNaN(y) THEN NaN
    ELSE IF IsInf(x) THEN (IF IsInf(y) /\ y[1] # x[1] THEN NaN ELSE x)
    ELSE IF IsInf(y) THEN y
    ELSE Norm(x[1] * y[2] + y[1] * x[2], x[2] * y[2])

FSub(x, y) == FAdd(x, FNeg(y))

FMul(x, y) ==
    IF IsNaN(x) \/ IsNaN(y) THEN NaN
    ELSE IF IsInf(x) \/ IsInf(y)
         THEN (IF x[1] = 0 \/ y[1] = 0 THEN NaN ELSE <<Sign(x[1]) * Sign(y[1]), 0>>)
    ELSE Norm(x[1] * y[1], x[2] * y[2])

\* true division as pandas performs it: x/0 is +-inf (0/0 is NaN), no exception
FDiv(x, y) ==
    IF IsNaN(x) \/ IsNaN(y) THEN NaN
    ELSE IF IsInf(x) THEN (IF IsInf(y) THEN NaN
                           ELSE <<Sign(x[1]) * (IF y[1] < 0 THEN -1 ELSE 1), 0>>)
    ELSE IF IsInf(y) THEN Float(0)
    ELSE IF y[1] = 0 THEN <<Sign(x[1]), 0>>
    ELSE Norm(x[1] * y[2], x[2] * y[1])

\* comparisons; any comparison with NaN is false
FLt(x, y) ==
    /\ ~IsNaN(x) /\ ~IsNaN(y)
    /\ IF IsInf(x) THEN x[1] < 0 /\ y # x
       ELSE IF IsInf(y) THEN y[1] > 0
       ELSE x[1] * y[2] < y[1] * x[2]
FLe(x, y) == ~IsNaN(x) /\ ~IsNaN(y) /\ (x = y \/ FLt(x, y))
FGt(x, y) == FLt(y, x)

\* ---------------------------------------------------------------- calendar
Month(d) == d \div MonthLen
MonthEnd(m) == m * MonthLen + MonthLen - 1

\* the day numbers of a set, ascending (DatasetReader.read returns a sorted index)
RECURSIVE SortedSeq(_)
SortedSeq(S) ==
    IF S = {} THEN << >>
    ELSE LET lo == CHOOSE x \in S : \A y \in S : x <= y
         IN <<lo>> \o SortedSeq(S \ {lo})


\* ---------------------------------------------------------------- signal
\* DataFrame.pct_change: each cell over the previous row's cell, minus one; the
\* first row has no previous row
PctChange(df) ==
    [i \in 1..Len(df) |->
        [a \in Assets |->
            IF i = 1 THEN NaN
            ELSE FSub(FDiv(df[i][a], df[i - 1][a]), Float(1))]]

RECURSIVE SumCells(_, _, _)
SumCells(df, a, J) ==
    IF J = {} THEN Float(0)
    ELSE LET j == CHOOSE x \in J : TRUE
         IN FAdd(df[j][a], SumCells(df, a, J \ {j}))

\* the rows of the trailing window (idx[i] - window, idx[i]] of row i
WindowRows(idx, i, window) == {j \in 1..i : idx[j] > idx[i] - window}

\* faulty variant: a warm-up: undefined until the window's span has elapsed
RollingMeanWarmUp(df, idx, window) ==
    [i \in 1..Len(df) |->
        [a \in Assets |->
            LET obs == {j \in WindowRows(idx, i, window) : ~IsNaN(df[j][a])}
            IN IF obs = {} \/ idx[i] - idx[1] < window THEN NaN
               ELSE FDiv(SumCells(df, a, obs), Float(Cardinality(obs)))]]

\* rolling('<n>d').mean(): the mean of the defined cells of the window, defined
\* as soon as the window holds one defined cell (an offset window's min_periods)
RollingMean(df, idx, window) ==
    [i \in 1..Len(df) |->
        [a \in Assets |->
            LET obs == {j \in WindowRows(idx, i, window) : ~IsNaN(df[j][a])}
            IN IF obs = {} THEN NaN
               ELSE FDiv(SumCells(df, a, obs), Float(Cardinality(obs)))]]

PricesToSignal(df, idx, window) == RollingMean(PctChange(df), idx, window)

\* ---------------------------------------------------------------- ranking
\* the labels of resample('1M'): one bin per calendar month from the first
\* row's month to the last row's month, labelled by the month's last day
ResampleIndex(idx) ==
    [k \in 1..(Month(idx[Len(idx)]) - Month(idx[1]) + 1) |->
        MonthEnd(Month(idx[1]) + k - 1)]

\* Resampler.first(): for each bin and column, the first defined cell of the
\* column among the bin's rows; NaN when the bin holds none
ResampleFirst(df, idx) ==
    LET labels == ResampleIndex(idx)
    IN [k \in 1..Len(labels) |->
        [a \in Assets |->
            LET obs == {j \in 1..Len(df) :
                            /\ MonthEnd(Month(idx[j])) = labels[k]
                            /\ ~IsNaN(df[j][a])}
            IN IF obs = {} THEN NaN
               ELSE df[CHOOSE j \in obs : \A j2 \in obs : j <= j2][a]]]

\* position of column c in the stable ascending sort of the defined cells
AscPos(row, c) ==
    1 + Cardinality({c2 \in Assets :
            /\ ~IsNaN(row[c2])
            /\ \/ FLt(row[c2], row[c])
               \/ (row[c2] = row[c] /\ c2 < c)})

\* ascending=False reverses the sorted order
DescPos(row, c) ==
    Cardinality({c2 \in Assets : ~IsNaN(row[c2])}) + 1 - AscPos(row, c)

\* faulty variant: ranks handed out in the reversed order as it stands
TiebreakFirst(row, c) == DescPos(row, c)

\* method='first' on a reversed order: inside a run of equal values the ranks
\* are handed out in reverse, so the run keeps its order of appearance
TiebreakFirstDescending(row, c) ==
    LET ties == {c2 \in Assets : row[c2] = row[c]}
        last == CHOOSE p \in {DescPos(row, c2) : c2 \in ties} :
                    \A c2 \in ties : DescPos(row, c2) <= p
    IN 2 * last - DescPos(row, c) - Cardinality(ties) + 1

\* DataFrame.rank(axis=1, ascending=False, method='first'); NaN cells keep NaN
RankRow(row) ==
    [c \in Assets |->
        IF IsNaN(row[c]) THEN NaN ELSE Float(TiebreakFirstDescending(row, c))]

Rank(df) == [k \in 1..Len(df) |-> RankRow(df[k])]

\* ---------------------------------------------------------------- long/short
\* faulty variant: the cutoff rounded up to a whole number of assets
CutoffRounded(split) ==
    Float((NumAssets * split[1] + split[2] - 1) \div split[2])

Cutoff(split) == FMul(Float(NumAssets), split)

\* np.where(rank_df <= cutoff, 1, -1)
AssignLongshort(ranks, split) ==
    [k \in 1..Len(ranks) |->
        [a \in Assets |->
            IF FLe(ranks[k][a], Cutoff(split)) THEN Float(1) ELSE Float(-1)]]

\* ---------------------------------------------------------------- weights
LongCount(row) == Cardinality({a \in Assets : FGt(row[a], Float(0))})
ShortCount(row) == Cardinality({a \in Assets : FLt(row[a], Float(0))})

\* faulty variant: the long leg weighted by the size of the universe
LongLegWeightAll(row) == FDiv(Float(1), Float(NumAssets))

LongLegWeight(row) == FDiv(Float(1), Float(LongCount(row)))
ShortLegWeight(row) == FDiv(Float(1), Float(ShortCount(row)))

\* faulty variant: the two legs' weights swapped
WeightFactorsSwapped(row) ==
    [a \in Assets |->
        IF FGt(row[a], Float(0)) THEN FMul(row[a], ShortLegWeight(row))
        ELSE FMul(row[a], LongLegWeight(row))]

\* np.where(longshort > 0, longshort * long_leg_weights, longshort * short_leg_weights)
WeightFactors(row) ==
    [a \in Assets |->
        IF FGt(row[a], Float(0)) THEN FMul(row[a], LongLegWeight(row))
        ELSE FMul(row[a], ShortLegWeight(row))]

AssignWeights(longshort) == [k \in 1..Len(longshort) |-> WeightFactors(longshort[k])]

\* ---------------------------------------------------------------- upsampling
NaNRow == [a \in Assets |-> NaN]

\* faulty variant: method='ffill': the row of the largest source label at or before d
FfillRow(df, srcidx, d) ==
    LET earlier == {k \in 1..Len(srcidx) : srcidx[k] <= d}
    IN IF earlier = {} THEN NaNRow
       ELSE df[CHOOSE k \in earlier : \A k2 \in earlier : srcidx[k] >= srcidx[k2]]

\* row of the source table that method='bfill' gives target label d: the row of
\* the smallest source label at or after d
BfillRow(df, srcidx, d) ==
    LET later == {k \in 1..Len(srcidx) : srcidx[k] >= d}
    IN IF later = {} THEN NaNRow
       ELSE df[CHOOSE k \in later : \A k2 \in later : srcidx[k] <= srcidx[k2]]

\* faulty variant: no fill method: only a target label equal to a source label gets a row
ReindexExact(df, srcidx, idx) ==
    [i \in 1..Len(idx) |->
        IF \E k \in 1..Len(srcidx) : srcidx[k] = idx[i]
        THEN df[CHOOSE k \in 1..Len(srcidx) : srcidx[k] = idx[i]]
        ELSE NaNRow]

Reindex(df, srcidx, idx) == [i \in 1..Len(idx) |-> BfillRow(df, srcidx, idx[i])]

\* ---------------------------------------------------------------- PnL
\* running product of a column down to row i, NaN cells skipped
RECURSIVE RunningProd(_, _, _)
RunningProd(df, a, i) ==
    IF i = 0 THEN Float(1)
    ELSE IF IsNaN(df[i][a]) THEN RunningProd(df, a, i - 1)
    ELSE FMul(RunningProd(df, a, i - 1), df[i][a])

\* faulty variant: skipna=False: a NaN cell makes every later cell of the column NaN
CumProdNoSkip(df) ==
    [i \in 1..Len(df) |->
        [a \in Assets |->
            IF \E j \in 1..i : IsNaN(df[j][a]) THEN NaN ELSE RunningProd(df, a, i)]]

\* DataFrame.cumprod(): a NaN cell stays NaN and does not break the product
CumProd(df) ==
    [i \in 1..Len(df) |->
        [a \in Assets |-> IF IsNaN(df[i][a]) THEN NaN ELSE RunningProd(df, a, i)]]

WeightedReturns(weights_daily, df) ==
    LET assets_daily_pct_change == PctChange(df)
    IN [i \in 1..Len(df) |->
        [a \in Assets |->
            FAdd(Float(1), FMul(weights_daily[i][a], assets_daily_pct_change[i][a]))]]

AssetPnls(weights_daily, df) ==
    LET cp == CumProd(WeightedReturns(weights_daily, df))
    IN [i \in 1..Len(df) |-> [a \in Assets |-> FSub(cp[i][a], Float(1))]]

\* DataFrame.sum(axis=1): NaN cells count as zero
RECURSIVE SumRow(_, _)
SumRow(row, n) ==
    IF n = 0 THEN Float(0)
    ELSE IF IsNaN(row[n]) THEN SumRow(row, n - 1)
    ELSE FAdd(SumRow(row, n - 1), row[n])

TotalPnl(pnls) == [i \in 1..Len(pnls) |-> SumRow(pnls[i], NumAssets)]

\* ---------------------------------------------------------------- inputs
\* a calendar: the trading days of the price table
Calendars == SUBSET (1..MaxDay) \ {{}}

\* The price tables read: every asset starts at the first price level and on
\* each later row at most one asset (moves[i - 1], 0 for none) switches to the
\* other level; late is the asset (0 for none, else the first column) with no
\* price on the first row.
MoveSeqs(n) == [1..(n - 1) -> 0..NumAssets]

PriceTable(n, moves, late) ==
    [i \in 1..n |->
        [a \in Assets |->
            IF i = 1 /\ a = late THEN NaN
            ELSE Float(PriceLevels[
                    1 + (Cardinality({j \in 1..(i - 1) : moves[j] = a}) % 2)])]]

RequiredParams == {"rolling_avg_days"}
ParamNames(params) == {p[1] : p \in params}
ParamValue(params, name) == (CHOOSE p \in params : p[1] = name)[2]

\* ---------------------------------------------------------------- state
VARIABLES
    pc,                     \* position in run.py / execute / generate_weights
    raised,                 \* exception that ended the run, "none" if none
    params,                 \* SignalGeneratorConfig.params, as name-value pairs
    longshort_split,        \* WeightedPortfolioGenerator._longshort_split
    index,                  \* prices_df.index
    prices_df,
    signal_df,
    monthly_index,          \* index of the period-level tables
    monthly_signal,
    rank_df,
    longshort_portfolios,
    weights,
    daily_weights,
    asset_pnls,
    total_pnl

vars == <<pc, raised, params, longshort_split, index, prices_df, signal_df,
          monthly_index, monthly_signal, rank_df, longshort_portfolios, weights,
          daily_weights, asset_pnls, total_pnl>>

config == <<params, longshort_split>>
inputs == <<index, prices_df>>
ranked == <<monthly_index, monthly_signal, rank_df>>
pnl == <<asset_pnls, total_pnl>>

Init ==
    /\ pc = "start"
    /\ raised = "none"
    /\ params = {}
    /\ longshort_split = <<1, 2>>
    /\ index = << >>
    /\ prices_df = << >>
    /\ signal_df = << >>
    /\ monthly_index = << >>
    /\ monthly_signal = << >>
    /\ rank_df = << >>
    /\ longshort_portfolios = << >>
    /\ weights = << >>
    /\ daily_weights = << >>
    /\ asset_pnls = << >>
    /\ total_pnl = << >>

\* run.py: config, signal generator and portfolio generator are constructed
Construct ==
    /\ pc = "start"
    /\ \E p \in {{}} \cup {{<<"rolling_avg_days", w>>} : w \in 1..MaxWindow} :
        /\ params' = p
        /\ IF RequiredParams \ ParamNames(p) # {}
           THEN /\ raised' = "Exception"
                /\ pc' = "failed"
                /\ UNCHANGED longshort_split
           ELSE /\ raised' = "none"
                /\ pc' = "constructed"
                /\ \E s \in Splits : longshort_split' = s
    /\ UNCHANGED <<inputs, signal_df, ranked, longshort_portfolios, weights,
                   daily_weights, pnl>>

\* run.py: the dataset is read into a price table with a sorted datetime index
Read ==
    /\ pc = "constructed"
    /\ \E cal \in Calendars :
       \E moves \in MoveSeqs(Cardinality(cal)) :
       \E late \in {0, 1} :
        /\ index' = SortedSeq(cal)
        /\ prices_df' = PriceTable(Cardinality(cal), moves, late)
    /\ pc' = "loaded"
    /\ UNCHANGED <<raised, config, signal_df, ranked, longshort_portfolios,
                   weights, daily_weights, pnl>>

\* generate_weights: signal_df = self._signal_generator.generate(prices_df)
Generate ==
    /\ pc = "loaded"
    /\ signal_df' = PricesToSignal(prices_df, index,
                                   ParamValue(params, "rolling_avg_days"))
    /\ pc' = "signal"
    /\ UNCHANGED <<raised, config, inputs, ranked, longshort_portfolios, weights,
                   daily_weights, pnl>>

\* generate_weights: rank_df = self._rank_signals(signal_df)
RankSignals ==
    /\ pc = "signal"
    /\ monthly_index' = ResampleIndex(index)
    /\ monthly_signal' = ResampleFirst(signal_df, index)
    /\ rank_df' = Rank(monthly_signal')
    /\ pc' = "ranked"
    /\ UNCHANGED <<raised, config, inputs, signal_df, longshort_portfolios,
                   weights, daily_weights, pnl>>

\* generate_weights: longshort_portfolios = self._assign_longshort(rank_df)
AssignLongshortStep ==
    /\ pc = "ranked"
    /\ longshort_portfolios' = AssignLongshort(rank_df, longshort_split)
    /\ pc' = "longshort"
    /\ UNCHANGED <<raised, config, inputs, signal_df, ranked, weights,
                   daily_weights, pnl>>

\* generate_weights: weights = self._assign_weights(longshort_portfolios)
AssignWeightsStep ==
    /\ pc = "longshort"
    /\ weights' = AssignWeights(longshort_portfolios)
    /\ pc' = "weighted"
    /\ UNCHANGED <<raised, config, inputs, signal_df, ranked,
                   longshort_portfolios, daily_weights, pnl>>

\* generate_weights: daily_weights = weights.reindex(prices_df.index, 'bfill')
Upsample ==
    /\ pc = "weighted"
    /\ daily_weights' = Reindex(weights, monthly_index, index)
    /\ pc' = "daily"
    /\ UNCHANGED <<raised, config, inputs, signal_df, ranked,
                   longshort_portfolios, weights, pnl>>

\* execute: asset_pnls, total_pnl = self._get_pnls(daily_weights)
GetPnls ==
    /\ pc = "daily"
    /\ asset_pnls' = AssetPnls(daily_weights, prices_df)
    /\ total_pnl' = TotalPnl(asset_pnls')
    /\ pc' = "done"
    /\ UNCHANGED <<raised, config, inputs, signal_df, ranked,
                   longshort_portfolios, weights, daily_weights>>

Next ==
    \/ Construct
    \/ Read
    \/ Generate
    \/ RankSignals
    \/ AssignLongshortStep
    \/ AssignWeightsStep
    \/ Upsample
    \/ GetPnls

Spec == Init /\ [][Next]_vars


\* ======================================================================
\* Claims
\* ======================================================================
Periods == 1..Len(monthly_index)
Days == 1..Len(index)

FullRow(row) == \A a \in Assets : ~IsNaN(row[a])

\* C1: in every period row whose signals are all defined, the ranks are a
\* permutation of 1..N, a strictly higher signal has a smaller rank, and equal
\* signals are ranked in column order.
C1_RankPermutation ==
    pc = "ranked" =>
        \A k \in Periods :
            FullRow(monthly_signal[k]) =>
                /\ {rank_df[k][a] : a \in Assets} = {<<r, 1>> : r \in 1..NumAssets}
                /\ \A a, b \in Assets :
                    /\ FGt(monthly_signal[k][a], monthly_signal[k][b])
                            => rank_df[k][a][1] < rank_df[k][b][1]
                    /\ (a < b /\ monthly_signal[k][a] = monthly_signal[k][b])
                            => rank_df[k][a][1] < rank_df[k][b][1]

\* a fully defined row holding both a tie and two different signals
C1_Witness ==
    /\ pc = "ranked"
    /\ \E k \in Periods :
        /\ FullRow(monthly_signal[k])
        /\ \E a, b \in Assets : a < b /\ monthly_signal[k][a] = monthly_signal[k][b]
        /\ \E a, b \in Assets : FGt(monthly_signal[k][a], monthly_signal[k][b])

\* C2: a cell is +1 exactly when its rank is defined and rank <= N * split
\* (cutoff not rounded), and -1 otherwise; with N = 3 and split = 1/2 only the
\* rank-1 asset of a fully ranked row is long.
C2_LongIffRankWithinCutoff ==
    pc = "longshort" =>
        \A k \in Periods :
            /\ \A a \in Assets :
                /\ longshort_portfolios[k][a] \in {<<1, 1>>, <<-1, 1>>}
                /\ longshort_portfolios[k][a] = <<1, 1>>
                     <=> /\ ~IsNaN(rank_df[k][a])
                         /\ rank_df[k][a][1] * longshort_split[2]
                                <= NumAssets * longshort_split[1] * rank_df[k][a][2]
            /\ (NumAssets = 3 /\ longshort_split = <<1, 2>> /\ FullRow(rank_df[k]))
                 => {a \in Assets : longshort_portfolios[k][a] = <<1, 1>>}
                        = {a \in Assets : rank_df[k][a] = <<1, 1>>}

\* a fully ranked row split at a cutoff that is not a whole number, with an
\* asset ranked between the cutoff and the cutoff rounded up
C2_Witness ==
    /\ pc = "longshort"
    /\ longshort_split = <<1, 2>>
    /\ \E k \in Periods :
        /\ FullRow(rank_df[k])
        /\ \E a \in Assets :
            /\ 2 * rank_df[k][a][1] > NumAssets
            /\ 2 * rank_df[k][a][1] < NumAssets + 2
            /\ longshort_portfolios[k][a] = <<-1, 1>>

RECURSIVE SumOver(_, _)
SumOver(row, S) ==
    IF S = {} THEN <<0, 1>>
    ELSE LET a == CHOOSE x \in S : TRUE
         IN FAdd(row[a], SumOver(row, S \ {a}))

Longs(k) == {a \in Assets : longshort_portfolios[k][a] = <<1, 1>>}
Shorts(k) == {a \in Assets : longshort_portfolios[k][a] = <<-1, 1>>}

\* C3: in every weight row with both legs non-empty each long asset weighs
\* +1/(number of longs), each short asset -1/(number of shorts); the positive
\* weights sum to 1 and the negative weights to -1.
C3_LegWeightsSumToOne ==
    pc = "weighted" =>
        \A k \in Periods :
            (Longs(k) # {} /\ Shorts(k) # {}) =>
                /\ \A a \in Longs(k) : weights[k][a] = <<1, Cardinality(Longs(k))>>
                /\ \A a \in Shorts(k) : weights[k][a] = <<-1, Cardinality(Shorts(k))>>
                /\ SumOver(weights[k], {a \in Assets : weights[k][a][1] > 0}) = <<1, 1>>
                /\ SumOver(weights[k], {a \in Assets : weights[k][a][1] < 0}) = <<-1, 1>>

\* a row with both legs non-empty and of different sizes
C3_Witness ==
    /\ pc = "weighted"
    /\ \E k \in Periods :
        /\ Longs(k) # {} /\ Shorts(k) # {}
        /\ Cardinality(Longs(k)) # Cardinality(Shorts(k))

\* C4: a row with an empty leg raises nothing, holds no weight of the empty
\* leg's sign, and has only defined, finite weights; the daily weights built
\* from it are defined and finite too.
C4_EmptyLegIsNoPosition ==
    /\ pc = "weighted" =>
        \A k \in Periods :
            (Longs(k) = {} \/ Shorts(k) = {}) =>
                /\ raised = "none"
                /\ \A a \in Assets : IsFinite(weights[k][a])
                /\ Longs(k) = {} => \A a \in Assets : weights[k][a][1] < 0
                /\ Shorts(k) = {} => \A a \in Assets : weights[k][a][1] > 0
    /\ pc = "daily" =>
        /\ raised = "none"
        /\ \A i \in Days : \A a \in Assets : IsFinite(daily_weights[i][a])

\* an empty long leg forced by the split on a fully ranked row, and another
\* from a period without any defined signal
C4_Witness ==
    /\ pc = "weighted"
    /\ \E k \in Periods : FullRow(rank_df[k]) /\ Longs(k) = {}
    /\ \E k \in Periods : (\A a \in Assets : IsNaN(rank_df[k][a])) /\ Longs(k) = {}

\* C5 as stated: every trading day strictly before the first rebalance date
\* has an undefined or zero weight for every asset.
C5_NoPositionBeforeFirstRebalance ==
    pc = "daily" =>
        \A i \in Days :
            index[i] < monthly_index[1] =>
                \A a \in Assets :
                    IsNaN(daily_weights[i][a]) \/ daily_weights[i][a] = <<0, 1>>

\* C5 amended: every trading day strictly before the first rebalance date
\* carries the first period's weight row, every cell of it defined and non-zero.
C5_FirstPeriodWeightBeforeFirstRebalance ==
    pc = "daily" =>
        \A i \in Days :
            index[i] < monthly_index[1] =>
                /\ daily_weights[i] = weights[1]
                /\ \A a \in Assets :
                    IsFinite(daily_weights[i][a]) /\ daily_weights[i][a][1] # 0

C5_Witness ==
    /\ pc = "daily"
    /\ \E i \in Days : index[i] < monthly_index[1]

PeriodOf(i) == Month(index[i]) - Month(index[1]) + 1

window_days == ParamValue(params, "rolling_avg_days")

\* C7 as stated: the signal has the price table's shape and is undefined
\* exactly on the rows within the first rolling_avg_days of elapsed time.
C7_UndefinedExactlyInWarmUp ==
    pc = "signal" =>
        /\ Len(signal_df) = Len(prices_df)
        /\ \A i \in Days : \A a \in Assets :
            IsNaN(signal_df[i][a]) <=> index[i] - index[1] < window_days

FirstPriced(a) ==
    CHOOSE i \in Days : ~IsNaN(prices_df[i][a]) /\ \A j \in 1..(i - 1) : IsNaN(prices_df[j][a])

\* C7 amended: the signal has the price table's shape and, for an asset whose
\* prices are missing only at the series start, is undefined exactly on the
\* rows up to and including the asset's first priced row (the first row for an
\* asset priced from the start) and defined on every later row.
C7_UndefinedExactlyUntilFirstPrice ==
    pc = "signal" =>
        /\ Len(signal_df) = Len(prices_df)
        /\ \A i \in Days : DOMAIN signal_df[i] = Assets
        /\ \A a \in Assets :
            (\E i \in Days : ~IsNaN(prices_df[i][a])) =>
                \A i \in Days : IsNaN(signal_df[i][a]) <=> i <= FirstPriced(a)

\* a row after the first, still inside the first rolling_avg_days, with a
\* defined signal
C7_Witness ==
    /\ pc = "signal"
    /\ \E i \in Days : \E a \in Assets :
        /\ i > 1
        /\ index[i] - index[1] < window_days
        /\ ~IsNaN(signal_df[i][a])

\* C8: generate_weights does not return weights when no rebalance period has
\* a defined signal; it ends with an error.
C8_ErrorWhenNoSignal ==
    (/\ pc \in {"daily", "done"}
     /\ \A k \in Periods : \A a \in Assets : IsNaN(monthly_signal[k][a]))
        => raised # "none"

\* simple day-over-day return of asset a on row i, NaN when either price is missing
Return(i, a) ==
    IF i = 1 \/ IsNaN(prices_df[i][a]) \/ IsNaN(prices_df[i - 1][a]) THEN NaN
    ELSE Norm(prices_df[i][a][1] * prices_df[i - 1][a][2]
                 - prices_df[i - 1][a][1] * prices_df[i][a][2],
              prices_df[i - 1][a][1] * prices_df[i][a][2])

RECURSIVE Compound(_, _)
Compound(a, S) ==
    IF S = {} THEN <<1, 1>>
    ELSE LET s == CHOOSE x \in S : TRUE
         IN FMul(FAdd(<<1, 1>>, FMul(daily_weights[s][a], Return(s, a))),
                 Compound(a, S \ {s}))

\* C9: on every row with a defined return the asset PnL is the product over the
\* days up to it that have a defined return of (1 + weight * return), minus 1;
\* the first row's return is undefined; TotalPnL is the sum of the row's
\* defined asset PnLs and is finite on every row.
C9_CompoundedPnl ==
    pc = "done" =>
        /\ Len(asset_pnls) = Len(index) /\ Len(total_pnl) = Len(index)
        /\ \A a \in Assets : IsNaN(Return(1, a)) /\ IsNaN(asset_pnls[1][a])
        /\ \A i \in Days :
            /\ \A a \in Assets :
                ~IsNaN(Return(i, a)) =>
                    asset_pnls[i][a] =
                        FSub(Compound(a, {s \in 1..i : ~IsNaN(Return(s, a))}), <<1, 1>>)
            /\ IsFinite(total_pnl[i])
            /\ total_pnl[i] =
                   SumOver(asset_pnls[i], {a \in Assets : ~IsNaN(asset_pnls[i][a])})

\* a row compounding at least two non-zero weighted returns of one asset
C9_Witness ==
    /\ pc = "done"
    /\ \E i \in Days : \E a \in Assets :
        /\ Cardinality({s \in 1..i : ~IsNaN(Return(s, a)) /\ Return(s, a)[1] # 0}) >= 2
        /\ total_pnl[i][1] # 0

FirstDayOf(k) ==
    CHOOSE i \in Days : PeriodOf(i) = k /\ \A j \in Days : PeriodOf(j) = k => i <= j

\* C10: the row ranked for a period is the signal row of the period's first
\* trading day, for every asset.
C10_PointInTimeSnapshot ==
    pc = "ranked" =>
        \A k \in Periods :
            (\E i \in Days : PeriodOf(i) = k) =>
                monthly_signal[k] = signal_df[FirstDayOf(k)]

====
